---- MODULE Spec2Model ----
(***************************************************************************)
(* Note-Taking: the note store (note_manager.py) and the presentation      *)
(* layer's handlers that call it (app.py).                                 *)
(*                                                                         *)
(* A Python str is a sequence of one-character strings.  The backing file  *)
(* is modelled by what a read of it yields: missing, a JSON array, a JSON  *)
(* value that is no array, bytes that do not parse, bytes that do not      *)
(* decode.  Each reading of the wall clock, the outcome of each            *)
(* open/read/write and the value of uuid4 are the environment's choices.   *)
(***************************************************************************)
EXTENDS Integers, Sequences, FiniteSets, TLC

\* ---------------------------------------------------------------- bounds
\* number of uuid4 values the environment can hand out
MaxIds == 2
\* ticks per second: a tick is the clock's resolution (one microsecond)
TicksPerSec == 2

\* ------------------------------------------------------------- the texts
Empty == <<>>
Blank == <<" ", "\n">>
Hi == <<"H", "i">>
PaddedHi == <<" ", "H", "i", "\n">>
SayHello == <<"s", "a", "y", " ", "h", "e", "l", "l", "o">>
HELLO == <<"H", "E", "L", "L", "O">>
LowerHi == <<"h", "i">>

\* what a caller of the store passes as title and content
Drafts == {[title |-> Hi, content |-> Blank], [title |-> Empty, content |-> SayHello]}
\* what a caller passes to search
Queries == {HELLO, LowerHi, Empty}
\* what a user types into the editor's title field and into its content field
TypedTitles == {Empty, Blank, PaddedHi}
TypedContents == {Empty, Blank, PaddedHi, SayHello}

UUIDs == <<"u1", "u2", "u3", "u4", "u5", "u6">>
Ids == {UUIDs[i] : i \in 1..MaxIds}
None == "None"

\* ------------------------------------------------------- Python built-ins
CasePairs == {<<"H", "h">>, <<"E", "e">>, <<"L", "l">>, <<"O", "o">>, <<"I", "i">>, <<"S", "s">>, <<"A", "a">>, <<"Y", "y">>}

\* str.lower on one character
lower_char(c) == IF \E p \in CasePairs : p[1] = c THEN (CHOOSE p \in CasePairs : p[1] = c)[2] ELSE c

\* variant: the text as it is, case kept
lower_not(s) == s

\* str.lower
lower(s) == [i \in 1..Len(s) |-> lower_char(s[i])]

\* the `in` operator on two str: q occurs in s as a contiguous run
str_in(q, s) == \E k \in 0..(Len(s) - Len(q)) : \A i \in 1..Len(q) : s[k + i] = q[i]

\* str.isspace on one character
IsSpace(c) == c \in {" ", "\t", "\n"}

RECURSIVE lstrip(_)
lstrip(s) == IF s # <<>> /\ IsSpace(Head(s)) THEN lstrip(Tail(s)) ELSE s

RECURSIVE rstrip(_)
rstrip(s) == IF s # <<>> /\ IsSpace(s[Len(s)]) THEN rstrip(SubSeq(s, 1, Len(s) - 1)) ELSE s

\* str.strip
strip(s) == rstrip(lstrip(s))

\* the order of two str: code point by code point, a proper prefix first
RECURSIVE str_lt(_, _)
str_lt(a, b) ==
    IF b = <<>> THEN FALSE
    ELSE IF a = <<>> THEN TRUE
    ELSE IF Head(a) # Head(b) THEN Head(a) < Head(b)
    ELSE str_lt(Tail(a), Tail(b))

\* datetime.isoformat: the seconds, and the microseconds only when not zero.
\* Each field has a fixed width, so a field is its number.
isoformat(t) ==
    IF t % TicksPerSec = 0 THEN <<t \div TicksPerSec>>
    ELSE <<t \div TicksPerSec, t % TicksPerSec>>

\* datetime.now().isoformat(): what a reading of the wall clock can be, an
\* instant on the second or the tick after it.  The wall clock is local time,
\* which is set back (the end of daylight saving, a correction) as well as
\* forward, so a call may read either, whatever earlier calls read.
datetime_now == {isoformat(0), isoformat(1)}

\* datetime.fromisoformat
fromisoformat(s) == IF Len(s) = 1 THEN s[1] * TicksPerSec ELSE s[1] * TicksPerSec + s[2]

\* ------------------------------------------------------- the backing file
Missing == [kind |-> "missing", notes |-> <<>>]
Garbage == [kind |-> "garbage", notes |-> <<>>]
Undecodable == [kind |-> "undecodable", notes |-> <<>>]
NonList == [kind |-> "nonlist", notes |-> <<>>]
JsonList(ns) == [kind |-> "list", notes |-> ns]
\* the file right after open(..., 'w'): no bytes
Emptied == [kind |-> "empty", notes |-> <<>>]

\* an element of a JSON array that is no note (a number, an object without keys)
Junk == [junk |-> TRUE]
IsNote(e) == "id" \in DOMAIN e

ReadOutcomes == {"ok", "EACCES"}
WriteOutcomes == {"ok", "open_fails", "dump_fails"}
\* what the file system does to one load-then-save: after a failed read no
\* write is attempted
IO == {[rd |-> "ok", wr |-> w] : w \in WriteOutcomes} \cup {[rd |-> "EACCES", wr |-> "ok"]}

\* ------------------------------------------------------- Python values
PyNone == [t |-> "None"]
PyStr(s) == [t |-> "str", v |-> s]
PyBool(b) == [t |-> "bool", v |-> b]
PyDict(d) == [t |-> "dict", v |-> d]
PyList(l) == [t |-> "list", v |-> l]
\* what json.load yields for a file that holds no array (null, a number, ...)
PyOther == [t |-> "other"]

\* --------------------------------------------------- results of a function
NoExc == "none"
\* a function's outcome: the exception leaving it (or none), its return value,
\* the backing file afterwards, and whether it wrote the file ("no": no write
\* was attempted, "ok", "failed")
Returned(v, f) == [exc |-> NoExc, ret |-> v, file |-> f, saved |-> "no"]
Raised(e, f) == [exc |-> e, ret |-> PyNone, file |-> f, saved |-> "no"]

\* variant: `except OSError`, which lets every other exception out
except_OSError(r, default) ==
    IF r.exc \in {"PermissionError", "FileNotFoundError"} THEN [r EXCEPT !.exc = NoExc, !.ret = default] ELSE r

\* `except Exception as e: print(...); return default` around a body's outcome
except_Exception(r, default) == IF r.exc = NoExc THEN r ELSE [r EXCEPT !.exc = NoExc, !.ret = default]

\* `except (FileNotFoundError, json.JSONDecodeError): return []`
except_load(r) ==
    IF r.exc \in {"FileNotFoundError", "JSONDecodeError"} THEN Returned(PyList(<<>>), r.file) ELSE r

\* open(self.data_file, 'r') and json.load(f)
json_load(file, rd) ==
    IF rd = "EACCES" THEN Raised("PermissionError", file)
    ELSE IF file.kind = "missing" THEN Raised("FileNotFoundError", file)
    ELSE IF file.kind \in {"garbage", "empty"} THEN Raised("JSONDecodeError", file)
    ELSE IF file.kind = "undecodable" THEN Raised("UnicodeDecodeError", file)
    ELSE IF file.kind = "list" THEN Returned(PyList(file.notes), file)
    ELSE Returned(PyOther, file)

\* NoteManager.load_notes
load_notes(file, rd) == except_load(json_load(file, rd))

\* NoteManager.save_notes: open(..., 'w') empties the file, json.dump then
\* writes it; a failure of either is caught and reported as False
save_notes(file, notes, wr) ==
    IF wr = "ok" THEN [Returned(PyBool(TRUE), JsonList(notes)) EXCEPT !.saved = "ok"]
    ELSE IF wr = "open_fails" THEN [Returned(PyBool(FALSE), file) EXCEPT !.saved = "failed"]
    ELSE [Returned(PyBool(FALSE), Garbage) EXCEPT !.saved = "failed"]

\* variant: title and content stored in each other's place
new_note_swapped(note_id, title, content, current_time) ==
    [id |-> note_id, title |-> content, content |-> title,
     created_at |-> current_time, updated_at |-> current_time]

\* the dict literal of create_note
new_note(note_id, title, content, current_time) ==
    [id |-> note_id, title |-> title, content |-> content,
     created_at |-> current_time, updated_at |-> current_time]

\* the try block of NoteManager.create_note
create_note_try(file, title, content, note_id, current_time, rd, wr) ==
    LET L == load_notes(file, rd)
    IN  IF L.exc # NoExc THEN L
        ELSE IF L.ret.t # "list" THEN Raised("AttributeError", file)
        ELSE LET S == save_notes(file, Append(L.ret.v, new_note(note_id, title, content, current_time)), wr)
             IN  IF S.ret.v THEN [S EXCEPT !.ret = PyStr(note_id)] ELSE [S EXCEPT !.ret = PyNone]

\* NoteManager.create_note
create_note(file, title, content, note_id, current_time, rd, wr) ==
    except_Exception(create_note_try(file, title, content, note_id, current_time, rd, wr), PyNone)

\* the loop of get_note: the first element that is no note raises, the first
\* note with the id is returned
RECURSIVE get_note_loop(_, _, _)
get_note_loop(notes, note_id, file) ==
    IF notes = <<>> THEN Returned(PyNone, file)
    ELSE IF ~IsNote(Head(notes)) THEN Raised("TypeError", file)
    ELSE IF Head(notes).id = note_id THEN Returned(PyDict(Head(notes)), file)
    ELSE get_note_loop(Tail(notes), note_id, file)

\* the try block of NoteManager.get_note
get_note_try(file, note_id, rd) ==
    LET L == load_notes(file, rd)
    IN  IF L.exc # NoExc THEN L
        ELSE IF L.ret.t # "list" THEN Raised("TypeError", file)
        ELSE get_note_loop(L.ret.v, note_id, file)

\* NoteManager.get_note
get_note(file, note_id, rd) == except_Exception(get_note_try(file, note_id, rd), PyNone)

\* the sort key of get_all_notes
sort_key(x) == x.created_at

\* one insertion of a stable sort with reverse=True: x goes behind every
\* element whose key is not smaller than x's
RECURSIVE insert_desc(_, _)
insert_desc(sorted, x) ==
    IF sorted = <<>> THEN <<x>>
    ELSE IF str_lt(sort_key(Head(sorted)), sort_key(x)) THEN <<x>> \o sorted
    ELSE <<Head(sorted)>> \o insert_desc(Tail(sorted), x)

\* variant: the stored order, unsorted
sorted_not(notes) == notes

\* sorted(notes, key=lambda x: x['created_at'], reverse=True)
RECURSIVE sorted_reverse(_)
sorted_reverse(notes) ==
    IF notes = <<>> THEN <<>>
    ELSE insert_desc(sorted_reverse(SubSeq(notes, 1, Len(notes) - 1)), notes[Len(notes)])

\* variant: the listing written back in the order listed
get_all_notes_try_saving(file, rd) ==
    LET L == load_notes(file, rd)
    IN  IF L.exc # NoExc THEN L
        ELSE IF L.ret.t # "list" THEN Raised("TypeError", file)
        ELSE IF \E i \in 1..Len(L.ret.v) : ~IsNote(L.ret.v[i]) THEN Raised("TypeError", file)
        ELSE Returned(PyList(sorted_reverse(L.ret.v)), JsonList(sorted_reverse(L.ret.v)))

\* the try block of NoteManager.get_all_notes
get_all_notes_try(file, rd) ==
    LET L == load_notes(file, rd)
    IN  IF L.exc # NoExc THEN L
        ELSE IF L.ret.t # "list" THEN Raised("TypeError", file)
        ELSE IF \E i \in 1..Len(L.ret.v) : ~IsNote(L.ret.v[i]) THEN Raised("TypeError", file)
        ELSE Returned(PyList(sorted_reverse(L.ret.v)), file)

\* NoteManager.get_all_notes
get_all_notes(file, rd) == except_Exception(get_all_notes_try(file, rd), PyList(<<>>))

\* the loop of update_note: the first note with the id is rewritten and the
\* collection saved; an element that is no note before it raises
RECURSIVE update_note_loop(_, _, _, _, _, _, _, _)
update_note_loop(notes, i, note_id, title, content, time, file, wr) ==
    IF i > Len(notes) THEN Returned(PyBool(FALSE), file)
    ELSE IF ~IsNote(notes[i]) THEN Raised("TypeError", file)
    ELSE IF notes[i].id = note_id
         THEN save_notes(file, [notes EXCEPT ![i] = [@ EXCEPT !.title = title, !.content = content, !.updated_at = time]], wr)
    ELSE update_note_loop(notes, i + 1, note_id, title, content, time, file, wr)

\* the try block of NoteManager.update_note
update_note_try(file, note_id, title, content, time, rd, wr) ==
    LET L == load_notes(file, rd)
    IN  IF L.exc # NoExc THEN L
        ELSE IF L.ret.t # "list" THEN Raised("TypeError", file)
        ELSE update_note_loop(L.ret.v, 1, note_id, title, content, time, file, wr)

\* NoteManager.update_note
update_note(file, note_id, title, content, time, rd, wr) ==
    except_Exception(update_note_try(file, note_id, title, content, time, rd, wr), PyBool(FALSE))

\* variant: the comprehension with == for !=
RECURSIVE without_id_inverted(_, _)
without_id_inverted(notes, note_id) ==
    IF notes = <<>> THEN <<>>
    ELSE IF Head(notes).id = note_id THEN <<Head(notes)>> \o without_id_inverted(Tail(notes), note_id)
    ELSE without_id_inverted(Tail(notes), note_id)

\* [note for note in notes if note['id'] != note_id]
RECURSIVE without_id(_, _)
without_id(notes, note_id) ==
    IF notes = <<>> THEN <<>>
    ELSE IF Head(notes).id # note_id THEN <<Head(notes)>> \o without_id(Tail(notes), note_id)
    ELSE without_id(Tail(notes), note_id)

\* the try block of NoteManager.delete_note
delete_note_try(file, note_id, rd, wr) ==
    LET L == load_notes(file, rd)
    IN  IF L.exc # NoExc THEN L
        ELSE IF L.ret.t # "list" THEN Raised("TypeError", file)
        ELSE IF \E i \in 1..Len(L.ret.v) : ~IsNote(L.ret.v[i]) THEN Raised("TypeError", file)
        ELSE LET kept == without_id(L.ret.v, note_id)
             IN  IF Len(kept) < Len(L.ret.v) THEN save_notes(file, kept, wr)
                 ELSE Returned(PyBool(FALSE), file)

\* NoteManager.delete_note
delete_note(file, note_id, rd, wr) == except_Exception(delete_note_try(file, note_id, rd, wr), PyBool(FALSE))

\* the condition of search_notes' loop, query already lowered
note_matches(note, query) == str_in(query, lower(note.title)) \/ str_in(query, lower(note.content))

\* the loop of search_notes
RECURSIVE matching_notes(_, _)
matching_notes(notes, query) ==
    IF notes = <<>> THEN <<>>
    ELSE IF note_matches(Head(notes), query) THEN <<Head(notes)>> \o matching_notes(Tail(notes), query)
    ELSE matching_notes(Tail(notes), query)

\* the try block of NoteManager.search_notes
search_notes_try(file, query, rd) ==
    LET A == get_all_notes(file, rd)
    IN  IF A.exc # NoExc THEN A
        ELSE Returned(PyList(matching_notes(A.ret.v, lower(query))), file)

\* NoteManager.search_notes
search_notes(file, query, rd) == except_Exception(search_notes_try(file, query, rd), PyList(<<>>))

\* variant: a value that may have been handed out before
uuid4_any(given) == Ids

\* uuid.uuid4: a value never handed out before.  The store only compares ids
\* for equality, so the k-th value handed out is named UUIDs[k].
uuid4(given) == {UUIDs[Cardinality(given) + 1]} \cap Ids

\* what a call leaves behind for its caller: the value returned, or the
\* exception that left the store
Outcome(r) == IF r.exc = NoExc THEN r.ret ELSE [t |-> "raised", v |-> r.exc]

\* ------------------------------------------------------------------ state
\* file: the backing file; issued: the uuid4 values handed out; call: the last
\* call made to the store, with what the file system did to it (rd: its read,
\* saved: its write); ret: what it gave its caller
VARIABLES file, issued, call, ret
\* the session state of the presentation layer and the notice it last showed
\* (st.success, st.error, st.warning)
VARIABLES current_note_id, edit_mode, notice
\* where each session that shares the file is in a call of its store: its
\* position, the collection it loaded and the one it is writing
VARIABLE sessions

ui == <<current_note_id, edit_mode, notice>>
vars == <<file, issued, call, ret, current_note_id, edit_mode, notice, sessions>>

NoCall == [op |-> "none", rd |-> "ok", saved |-> "no"]

\* the sessions (each a NoteManager of its own on the same data_file)
Sessions == {"s1", "s2"}
\* a session in no call
Idle == [pc |-> "idle", loaded |-> <<>>, notes |-> <<>>, alone |-> TRUE]

\* NoteManager.__init__ with no file there: ensure_data_directory saves []
ensure_data_directory(f, wr) == IF f.kind = "missing" THEN save_notes(f, <<>>, wr).file ELSE f

\* app.py's initialisation of st.session_state
InitSession ==
    /\ current_note_id = None /\ edit_mode = FALSE /\ notice = "none"
    /\ sessions = [s \in Sessions |-> Idle]

Init ==
    /\ \E wr \in WriteOutcomes : file = ensure_data_directory(Missing, wr)
    /\ issued = {}
    /\ call = NoCall
    /\ ret = PyNone
    /\ InitSession

CreateNote ==
    \E d \in Drafts, io \in IO :
      \E note_id \in uuid4(issued), current_time \in datetime_now :
        LET r == create_note(file, d.title, d.content, note_id, current_time, io.rd, io.wr)
        IN  /\ file' = r.file
            /\ issued' = IF load_notes(file, io.rd).exc = NoExc THEN issued \cup {note_id} ELSE issued
            /\ call' = [op |-> "create", title |-> d.title, content |-> d.content, rd |-> io.rd, saved |-> r.saved]
            /\ ret' = Outcome(r)
            /\ UNCHANGED <<ui, sessions>>

GetNote ==
    \E note_id \in Ids, rd \in ReadOutcomes :
        LET r == get_note(file, note_id, rd)
        IN  /\ call' = [op |-> "get", id |-> note_id, rd |-> rd, saved |-> r.saved]
            /\ ret' = Outcome(r)
            /\ file' = r.file
            /\ UNCHANGED <<issued, ui, sessions>>

GetAllNotes ==
    \E rd \in ReadOutcomes :
        LET r == get_all_notes(file, rd)
        IN  /\ call' = [op |-> "list", rd |-> rd, saved |-> r.saved]
            /\ ret' = Outcome(r)
            /\ file' = r.file
            /\ UNCHANGED <<issued, ui, sessions>>

UpdateNote ==
    \E note_id \in Ids, d \in Drafts, time \in datetime_now, io \in IO :
        LET r == update_note(file, note_id, d.title, d.content, time, io.rd, io.wr)
        IN  /\ file' = r.file
            /\ call' = [op |-> "update", id |-> note_id, title |-> d.title, content |-> d.content, rd |-> io.rd, saved |-> r.saved]
            /\ ret' = Outcome(r)
            /\ UNCHANGED <<issued, ui, sessions>>

DeleteNote ==
    \E note_id \in Ids, io \in IO :
        LET r == delete_note(file, note_id, io.rd, io.wr)
        IN  /\ file' = r.file
            /\ call' = [op |-> "delete", id |-> note_id, rd |-> io.rd, saved |-> r.saved]
            /\ ret' = Outcome(r)
            /\ UNCHANGED <<issued, ui, sessions>>

SearchNotes ==
    \E query \in Queries, rd \in ReadOutcomes :
        LET r == search_notes(file, query, rd)
        IN  /\ call' = [op |-> "search", query |-> query, rd |-> rd, saved |-> r.saved]
            /\ ret' = Outcome(r)
            /\ file' = r.file
            /\ UNCHANGED <<issued, ui, sessions>>

Next ==
    \/ CreateNote
    \/ GetNote
    \/ GetAllNotes
    \/ UpdateNote
    \/ DeleteNote
    \/ SearchNotes

Spec == Init /\ [][Next]_vars

\* ------------------------------------------- any backing file, same calls
\* a note an earlier session stored
StoredNote == new_note(UUIDs[1], Hi, SayHello, isoformat(0))

\* what the file can hold when the store is constructed: nothing, a
\* collection, or what something else wrote there
BackingFiles ==
    {Missing, Garbage, Undecodable, NonList, JsonList(<<>>), JsonList(<<Junk>>),
     JsonList(<<StoredNote>>), JsonList(<<StoredNote, Junk>>)}

InitAnyFile ==
    /\ \E f \in BackingFiles, wr \in WriteOutcomes : file = ensure_data_directory(f, wr)
    /\ issued = {UUIDs[1]}
    /\ call = NoCall
    /\ ret = PyNone
    /\ InitSession

SpecAnyFile == InitAnyFile /\ [][Next]_vars

\* ------------------------------------------------- the presentation layer
\* variant: `or` for `and`
can_save_either(title, content) == strip(title) # <<>> \/ strip(content) # <<>>

\* `if title.strip() and content.strip():` of the Save Note button
can_save(title, content) == strip(title) # <<>> /\ strip(content) # <<>>

\* the ids of the notes the sidebar lists: get_all_notes()
listed(f, rd) == LET l == get_all_notes(f, rd).ret.v IN {l[i].id : i \in 1..Len(l)}

\* the editor is shown (else the viewer)
editor_shown == edit_mode \/ current_note_id = None

\* "New Note"
NewNoteButton ==
    /\ current_note_id' = None
    /\ edit_mode' = TRUE
    /\ notice' = "none"
    /\ call' = NoCall
    /\ ret' = PyNone
    /\ UNCHANGED <<file, issued, sessions>>

\* the button of a listed note
OpenNoteButton ==
    \E rd \in ReadOutcomes : \E id \in listed(file, rd) :
        /\ current_note_id' = id
        /\ edit_mode' = FALSE
        /\ notice' = "none"
        /\ call' = NoCall
        /\ ret' = PyNone
        /\ UNCHANGED <<file, issued, sessions>>

\* the delete button of a listed note
DeleteButton ==
    \E rd \in ReadOutcomes : \E id \in listed(file, rd) : \E io \in IO :
        LET r == delete_note(file, id, io.rd, io.wr)
        IN  /\ file' = r.file
            /\ call' = [op |-> "delete", id |-> id, rd |-> io.rd, saved |-> r.saved]
            /\ ret' = Outcome(r)
            /\ IF r.exc = NoExc /\ r.ret.v
               THEN /\ current_note_id' = IF current_note_id = id THEN None ELSE current_note_id
                    /\ notice' = "success"
               ELSE /\ current_note_id' = current_note_id
                    /\ notice' = "none"
            /\ UNCHANGED <<issued, edit_mode, sessions>>

\* "Save Note" with an existing note open: update_note
SaveButtonUpdate ==
    \E title \in TypedTitles, content \in TypedContents, time \in datetime_now, io \in IO :
        /\ editor_shown
        /\ can_save(title, content)
        /\ current_note_id # None
        /\ LET r == update_note(file, current_note_id, strip(title), strip(content), time, io.rd, io.wr)
           IN  /\ file' = r.file
               /\ call' = [op |-> "update", id |-> current_note_id, title |-> strip(title), content |-> strip(content), rd |-> io.rd, saved |-> r.saved]
               /\ ret' = Outcome(r)
               /\ IF r.exc = NoExc /\ r.ret.v
                  THEN edit_mode' = FALSE /\ notice' = "success"
                  ELSE edit_mode' = edit_mode /\ notice' = "error"
               /\ UNCHANGED <<issued, current_note_id, sessions>>

\* "Save Note" with no note open: create_note
SaveButtonCreate ==
    \E title \in TypedTitles, content \in TypedContents, current_time \in datetime_now, io \in IO :
      \E note_id \in uuid4(issued) :
        /\ editor_shown
        /\ can_save(title, content)
        /\ current_note_id = None
        /\ LET r == create_note(file, strip(title), strip(content), note_id, current_time, io.rd, io.wr)
           IN  /\ file' = r.file
               /\ issued' = IF load_notes(file, io.rd).exc = NoExc THEN issued \cup {note_id} ELSE issued
               /\ call' = [op |-> "create", title |-> strip(title), content |-> strip(content), rd |-> io.rd, saved |-> r.saved]
               /\ ret' = Outcome(r)
               /\ IF r.exc = NoExc /\ r.ret.t = "str"
                  THEN current_note_id' = r.ret.v /\ edit_mode' = FALSE /\ notice' = "success"
                  ELSE current_note_id' = current_note_id /\ edit_mode' = edit_mode /\ notice' = "error"
               /\ UNCHANGED sessions

\* "Save Note" with a title or a content that is empty once stripped
SaveButtonRefused ==
    \E title \in TypedTitles, content \in TypedContents :
        /\ editor_shown
        /\ ~can_save(title, content)
        /\ notice' = "warning"
        /\ call' = NoCall
        /\ ret' = PyNone
        /\ UNCHANGED <<file, issued, current_note_id, edit_mode, sessions>>

\* "Cancel"
CancelButton ==
    /\ editor_shown
    /\ edit_mode' = FALSE
    /\ notice' = "none"
    /\ call' = NoCall
    /\ ret' = PyNone
    /\ UNCHANGED <<file, issued, current_note_id, sessions>>

\* show_note_viewer: "Edit" when the open note is found; when it is not,
\* "Note not found." and no note is open any more
ShowNoteViewer ==
    \E rd \in ReadOutcomes, pressed \in BOOLEAN :
        LET r == get_note(file, current_note_id, rd)
        IN  /\ ~editor_shown
            /\ call' = [op |-> "get", id |-> current_note_id, rd |-> rd, saved |-> r.saved]
            /\ ret' = Outcome(r)
            /\ IF r.exc = NoExc /\ r.ret.t = "dict"
               THEN /\ edit_mode' = pressed
                    /\ notice' = "none"
                    /\ current_note_id' = current_note_id
               ELSE /\ edit_mode' = edit_mode
                    /\ notice' = "error"
                    /\ current_note_id' = None
            /\ file' = r.file
            /\ UNCHANGED <<issued, sessions>>

NextUI ==
    \/ NewNoteButton
    \/ OpenNoteButton
    \/ DeleteButton
    \/ SaveButtonUpdate
    \/ SaveButtonCreate
    \/ SaveButtonRefused
    \/ CancelButton
    \/ ShowNoteViewer

SpecUI == Init /\ [][NextUI]_vars

\* ------------------------------------------------- str and re built-ins
\* s[i:], positions counted from 1
str_from(s, i) == SubSeq(s, i, Len(s))

\* p occurs in s at position i
occurs_at(s, i, p) == i + Len(p) - 1 <= Len(s) /\ SubSeq(s, i, i + Len(p) - 1) = p

\* str.find: the first position from i on where p occurs, 0 when there is none
str_find(s, p, i) ==
    LET hits == {j \in i..(Len(s) - Len(p) + 1) : occurs_at(s, j, p)}
    IN  IF hits = {} THEN 0 ELSE CHOOSE j \in hits : \A k \in hits : j <= k

\* str.replace
RECURSIVE str_replace(_, _, _)
str_replace(s, old, new) ==
    LET j == str_find(s, old, 1)
    IN  IF j = 0 THEN s
        ELSE SubSeq(s, 1, j - 1) \o new \o str_replace(str_from(s, j + Len(old)), old, new)

\* str.split(sep)
RECURSIVE str_split(_, _)
str_split(s, sep) ==
    LET j == str_find(s, sep, 1)
    IN  IF j = 0 THEN <<s>>
        ELSE <<SubSeq(s, 1, j - 1)>> \o str_split(str_from(s, j + Len(sep)), sep)

\* sep.join(parts)
RECURSIVE str_join(_, _)
str_join(sep, parts) ==
    IF parts = <<>> THEN <<>>
    ELSE IF Len(parts) = 1 THEN parts[1]
    ELSE parts[1] \o sep \o str_join(sep, Tail(parts))


\* re.sub of a pattern open(G)close by pre \1 post, scanning from the
\* left: G is the shortest run of at least min characters, none of them in
\* excl, that close follows (.*? has min 0 and excl {"\n"})
RECURSIVE sub_span(_, _, _, _, _, _, _)
sub_span(s, open, close, excl, min, pre, post) ==
    LET o == str_find(s, open, 1)
        j == str_find(s, close, o + Len(open) + min)
        matched == j # 0 /\ \A k \in (o + Len(open))..(j - 1) : s[k] \notin excl
    IN  IF o = 0 THEN s
        ELSE IF matched
             THEN SubSeq(s, 1, o - 1) \o pre \o SubSeq(s, o + Len(open), j - 1) \o post
                      \o sub_span(str_from(s, j + Len(close)), open, close, excl, min, pre, post)
        ELSE SubSeq(s, 1, o) \o sub_span(str_from(s, o + 1), open, close, excl, min, pre, post)

\* the lines of a text and the text of lines: re.sub with flags=re.MULTILINE
\* of a pattern anchored by ^ (and $) that matches no "\n" substitutes in each
\* line by itself
lines_of(s) == str_split(s, <<"\n">>)
join_lines(ls) == str_join(<<"\n">>, ls)

\* ^prefix(.*?)$ by pre \1 post, in one line
line_wrap(line, prefix, pre, post) ==
    IF occurs_at(line, 1, prefix) THEN pre \o str_from(line, Len(prefix) + 1) \o post ELSE line

\* ------------------------------------------- PDFGenerator.clean_content
\* the backtick and the characters outside ASCII are named by their code points
Bullet == <<"U+2022", " ">>
\* len(code_content) > 100 and code_content[:100]
CodeLimit == 100
\* r'_' * 50
RuleWidth == 50

CodeBlockOpen == <<"<", "f", "o", "n", "t", " ", "f", "a", "c", "e", "=", "\"", "C", "o", "u", "r", "i", "e", "r", "\"", " ", "s", "i", "z", "e", "=", "\"", "9", "\"", ">">>
FontClose == <<"<", "/", "f", "o", "n", "t", ">">>
Fence == <<"U+0060", "U+0060", "U+0060">>
Ellipsis == <<".", ".", ".">>
Br == <<"<", "b", "r", "/", ">">>

\* lines 72-74: headings, ### before ## before #
heading(content) ==
    LET ls == lines_of(content)
        in_line(line) ==
            line_wrap(line_wrap(line_wrap(line, <<"#", "#", "#", " ">>, <<"<", "b", ">", "<", "f", "o", "n", "t", " ", "s", "i", "z", "e", "=", "\"", "1", "2", "\"", ">">>, <<"<", "/", "f", "o", "n", "t", ">", "<", "/", "b", ">">>), <<"#", "#", " ">>, <<"<", "b", ">", "<", "f", "o", "n", "t", " ", "s", "i", "z", "e", "=", "\"", "1", "4", "\"", ">">>, <<"<", "/", "f", "o", "n", "t", ">", "<", "/", "b", ">">>), <<"#", " ">>, <<"<", "b", ">", "<", "f", "o", "n", "t", " ", "s", "i", "z", "e", "=", "\"", "1", "6", "\"", ">">>, <<"<", "/", "f", "o", "n", "t", ">", "<", "/", "b", ">">>)
    IN  join_lines([i \in 1..Len(ls) |-> in_line(ls[i])])

\* lines 77-80: bold, then italic, then strikethrough, then inline code
\* (the run of inline code goes over line ends, that of the others does not)
inline_format(s) ==
    LET bold == sub_span(s, <<"*", "*">>, <<"*", "*">>, {"\n"}, 0, <<"<", "b", ">">>, <<"<", "/", "b", ">">>)
        italic == sub_span(bold, <<"*">>, <<"*">>, {"\n"}, 0, <<"<", "i", ">">>, <<"<", "/", "i", ">">>)
        strike == sub_span(italic, <<"~", "~">>, <<"~", "~">>, {"\n"}, 0, <<"<", "s", "t", "r", "i", "k", "e", ">">>, <<"<", "/", "s", "t", "r", "i", "k", "e", ">">>)
    IN  sub_span(strike, <<"U+0060">>, <<"U+0060">>, {"U+0060"}, 1, <<"<", "f", "o", "n", "t", " ", "f", "a", "c", "e", "=", "\"", "C", "o", "u", "r", "i", "e", "r", "\"", ">">>, FontClose)

\* the number of digits a line starts with
RECURSIVE leading_digits(_)
leading_digits(line) ==
    IF line # <<>> /\ Head(line) \in {"0", "1", "2", "3", "4", "5", "6", "7", "8", "9"} THEN 1 + leading_digits(Tail(line)) ELSE 0

\* line 85: ^\d+\. and a space, by the bullet
numbered(line) ==
    LET n == leading_digits(line)
    IN  IF n >= 1 /\ occurs_at(line, n + 1, <<".", " ">>) THEN Bullet \o str_from(line, n + 3) ELSE line

\* lines 83-85 and 88: the list rules and the quote rule
list_and_quote(content) ==
    LET ls == lines_of(content)
        in_line(line) ==
            line_wrap(numbered(line_wrap(line_wrap(line, Bullet, Bullet, <<>>), <<"-", " ">>, Bullet, <<>>)),
                      <<">", " ">>, <<"<", "i", ">", "\"", " ", " ">>, <<" ", " ", "\"", "<", "/", "i", ">">>)
    IN  join_lines([i \in 1..Len(ls) |-> in_line(ls[i])])

\* lines 91-96
replace_code_block(group0) ==
    LET code_content == strip(str_replace(group0, Fence, <<>>))
    IN  CodeBlockOpen
          \o (IF Len(code_content) > CodeLimit THEN SubSeq(code_content, 1, CodeLimit) \o Ellipsis ELSE code_content)
          \o FontClose

\* line 97: re.sub of fence, [\s\S]*?, fence by replace_code_block
RECURSIVE sub_code_block(_)
sub_code_block(s) ==
    LET o == str_find(s, Fence, 1)
        j == str_find(s, Fence, o + Len(Fence))
    IN  IF o = 0 \/ j = 0 THEN s
        ELSE SubSeq(s, 1, o - 1) \o replace_code_block(SubSeq(s, o, j + Len(Fence) - 1))
                 \o sub_code_block(str_from(s, j + Len(Fence)))

\* lines 100-109
replace_table(table_text) ==
    LET is_row(line) == str_find(line, <<"|">>, 1) # 0 /\ ~occurs_at(strip(line), 1, <<"|", "-", "-">>)
        filled(cell) == strip(cell) # <<>>
        cells(line) == LET cs == SelectSeq(str_split(line, <<"|">>), filled) IN [i \in 1..Len(cs) |-> strip(cs[i])]
        has_cells(line) == cells(line) # <<>>
        rows == SelectSeq(SelectSeq(str_split(table_text, <<"\n">>), is_row), has_cells)
    IN  str_join(Br, [i \in 1..Len(rows) |-> str_join(<<" ", "U+2022", " ">>, cells(rows[i]))])

\* line 111: re.sub(r'\|.*?\|[\s\S]*?(?=\n\n|\n[^|]|\Z)', replace_table, content)
RECURSIVE sub_table(_)
sub_table(s) ==
    LET o == str_find(s, <<"|">>, 1)
        j == str_find(s, <<"|">>, o + 1)
        matched == j # 0 /\ \A k \in (o + 1)..(j - 1) : s[k] # "\n"
        ends == {e \in (j + 1)..(Len(s) + 1) :
                   e = Len(s) + 1 \/ (s[e] = "\n" /\ e + 1 <= Len(s) /\ s[e + 1] # "|")}
        end == CHOOSE e \in ends : \A k \in ends : e <= k
    IN  IF o = 0 THEN s
        ELSE IF matched
             THEN SubSeq(s, 1, o - 1) \o replace_table(SubSeq(s, o, end - 1)) \o sub_table(str_from(s, end))
        ELSE SubSeq(s, 1, o) \o sub_table(str_from(s, o + 1))

\* lines 114-115: the checklist rules; line 118: ^---+$, the horizontal rule
checklist_and_rule(content) ==
    LET ls == lines_of(content)
        in_line(line) ==
            LET checked == line_wrap(line_wrap(line, <<"-", " ", "[", "x", "]", " ">>, <<"U+2713", " ">>, <<>>), <<"-", " ", "[", " ", "]", " ">>, <<"U+2610", " ">>, <<>>)
            IN  IF Len(checked) >= 3 /\ \A i \in 1..Len(checked) : checked[i] = "-"
                THEN [i \in 1..RuleWidth |-> "_"]
                ELSE checked
    IN  join_lines([i \in 1..Len(ls) |-> in_line(ls[i])])

\* line 121: re.sub(r'\[(.*?)\]\(.*?\)', r'\1', content)
RECURSIVE sub_link(_)
sub_link(s) ==
    LET o == str_find(s, <<"[">>, 1)
        j == str_find(s, <<"]", "(">>, o + 1)
        k == IF j # 0 THEN str_find(s, <<")">>, j + 2) ELSE 0
        matched == k # 0 /\ \A i \in (o + 1)..(k - 1) : s[i] # "\n"
    IN  IF o = 0 THEN s
        ELSE IF matched THEN SubSeq(s, 1, o - 1) \o SubSeq(s, o + 1, j - 1) \o sub_link(str_from(s, k + 1))
        ELSE SubSeq(s, 1, o) \o sub_link(str_from(s, o + 1))

\* PDFGenerator.clean_content: the substitutions in the order of the source,
\* each on the result of the one before
clean_content(content) ==
    LET headings == heading(content)
        inline == inline_format(headings)
        lists == list_and_quote(inline)
        blocks == sub_code_block(lists)
        tables == sub_table(blocks)
        checks == checklist_and_rule(tables)
        links == sub_link(checks)
    IN  str_replace(str_replace(links, <<"\n", "\n">>, Br \o Br), <<"\n">>, Br)

\* ------------------------------------- reportlab, as PDFGenerator uses it
\* a flowable of a story
Paragraph(text, style) == [k |-> "Paragraph", text |-> text, style |-> style, h |-> 0]
Spacer(h) == [k |-> "Spacer", text |-> <<>>, style |-> "", h |-> h]
PageBreak == [k |-> "PageBreak", text |-> <<>>, style |-> "", h |-> 0]

\* the name of a tag: what stands before its first space
tag_name(tag) == LET j == str_find(tag, <<" ">>, 1) IN IF j = 0 THEN tag ELSE SubSeq(tag, 1, j - 1)

\* the parse of a Paragraph's text: every end tag closes the tag opened last
\* and no tag is left open (<br/> opens none); stack holds the open tags.
\* A "<" that no ">" follows is text.
RECURSIVE tags_nest(_, _)
tags_nest(s, stack) ==
    LET o == str_find(s, <<"<">>, 1)
        j == str_find(s, <<">">>, o + 1)
        tag == SubSeq(s, o + 1, j - 1)
        rest == str_from(s, j + 1)
    IN  IF o = 0 \/ j = 0 THEN stack = <<>>
        ELSE IF tag = <<>> THEN FALSE
        ELSE IF tag[Len(tag)] = "/" THEN tags_nest(rest, stack)
        ELSE IF Head(tag) = "/"
             THEN stack # <<>> /\ Head(stack) = tag_name(Tail(tag)) /\ tags_nest(rest, Tail(stack))
        ELSE tags_nest(rest, <<tag_name(tag)>> \o stack)

\* strftime("%B %d, %Y at %I:%M %p"): the instant to the minute
strftime_minute(s) == <<"minute ", ToString(fromisoformat(s) \div (60 * TicksPerSec))>>
\* strftime("%m/%d/%Y"): the instant's day
strftime_day(s) == <<"day ", ToString(fromisoformat(s) \div (86400 * TicksPerSec))>>

\* doc.build(story): it returns, or raises (a LayoutError for a flowable
\* that fits no page, say) with a message
BuildOutcomes == {"ok", "LayoutError"}
LayoutMessage == <<"F", "l", "o", "w", "a", "b", "l", "e", " ", "t", "o", "o", " ", "l", "a", "r", "g", "e", " ", "o", "n", " ", "p", "a", "g", "e", " ", "1">>
\* the bytes of a built document, named by the story they lay out, and b''
PyBytes(story) == [t |-> "bytes", v |-> story]

\* ---------------------------------------------------------- PDFGenerator
\* "─" * 50 and "─" * 80
SeparatorWidth == 50
CollectionSeparatorWidth == 80
ErrorTitle == <<"P", "D", "F", " ", "G", "e", "n", "e", "r", "a", "t", "i", "o", "n", " ", "E", "r", "r", "o", "r">>
CoverTitle == <<"M", "y", " ", "N", "o", "t", "e", "s", " ", "C", "o", "l", "l", "e", "c", "t", "i", "o", "n">>
TocTitle == <<"T", "a", "b", "l", "e", " ", "o", "f", " ", "C", "o", "n", "t", "e", "n", "t", "s">>

\* lines 280-299: generate_error_pdf
generate_error_pdf(error_message, err_build) ==
    IF ~tags_nest(error_message, <<>>) THEN [t |-> "raised", v |-> "ValueError"]
    ELSE IF err_build = "ok"
         THEN PyBytes(<<Paragraph(ErrorTitle, "CustomTitle"), Spacer(12), Paragraph(error_message, "CustomBody")>>)
    ELSE PyBytes(<<>>)

\* lines 149-154 and 240-245: the metadata line
meta_text(note) ==
    <<"C", "r", "e", "a", "t", "e", "d", ":", " ">> \o strftime_minute(note.created_at)
        \o (IF note.created_at # note.updated_at THEN <<" ", "|", " ", "L", "a", "s", "t", " ", "U", "p", "d", "a", "t", "e", "d", ":", " ">> \o strftime_minute(note.updated_at) ELSE <<>>)

\* lines 165-174 and 252-261: the content, a Paragraph and a Spacer for each
\* part between blank lines that is not white space only
content_flowables(content) ==
    LET filled(p) == strip(p) # <<>>
        kept == SelectSeq(str_split(clean_content(content), Br \o Br), filled)
    IN  [i \in 1..(2 * Len(kept)) |->
            IF i % 2 = 1 THEN Paragraph(strip(kept[(i + 1) \div 2]), "CustomBody") ELSE Spacer(6)]

\* lines 141-174: the story of one note
single_story(note) ==
    <<Paragraph(note.title, "CustomTitle"), Spacer(12),
      Paragraph(meta_text(note), "MetaData"), Spacer(12),
      Paragraph([i \in 1..SeparatorWidth |-> "U+2500"], "Separator")>> \o content_flowables(note.content)

\* a step that builds the story raises ValueError: datetime.fromisoformat of
\* a created_at or updated_at that is no ISO date and time (written <<-1>>),
\* Paragraph(text, style) of a text whose tags do not nest
story_raises(notes, story) ==
    \/ \E i \in 1..Len(notes) : \E t \in {notes[i].created_at, notes[i].updated_at} : \E j \in 1..Len(t) : t[j] < 0
    \/ \E i \in 1..Len(story) : story[i].k = "Paragraph" /\ ~tags_nest(story[i].text, <<>>)

\* lines 129-184: generate_single_note_pdf; only doc.build is inside the try
generate_single_note_pdf(note, build, err_build) ==
    IF story_raises(<<note>>, single_story(note)) THEN [t |-> "raised", v |-> "ValueError"]
    ELSE IF build = "ok" THEN PyBytes(single_story(note))
    ELSE generate_error_pdf(<<"E", "r", "r", "o", "r", " ", "g", "e", "n", "e", "r", "a", "t", "i", "n", "g", " ", "P", "D", "F">>, err_build)

\* lines 200-221: the cover and the heading of the table of contents
cover(notes, now) ==
    <<Paragraph(CoverTitle, "CustomTitle"), Spacer(12),
      Paragraph(<<"G", "e", "n", "e", "r", "a", "t", "e", "d", " ", "o", "n", ":", " ">> \o strftime_minute(now), "MetaData"), Spacer(12),
      Paragraph(<<"T", "o", "t", "a", "l", " ", "N", "o", "t", "e", "s", ":", " ">> \o <<ToString(Len(notes))>>, "CustomBody"), Spacer(24),
      Paragraph(TocTitle, "CustomHeading"), Spacer(12)>>

\* lines 223-227: the entries of the table of contents
toc(notes) ==
    [i \in 1..Len(notes) |->
        Paragraph(<<ToString(i), ".", " ">> \o notes[i].title \o <<" ", "(">> \o strftime_day(notes[i].created_at) \o <<")">>,
                  "CustomBody")]

\* variant: a separator after every note, the last one too
separator_after_all(i, notes) ==
    <<Spacer(24), Paragraph([j \in 1..CollectionSeparatorWidth |-> "U+2500"], "Separator"), Spacer(24)>>

\* lines 263-268: the separator after a note that is not the last
separator_after(i, notes) ==
    IF i < Len(notes)
    THEN <<Spacer(24), Paragraph([j \in 1..CollectionSeparatorWidth |-> "U+2500"], "Separator"), Spacer(24)>>
    ELSE <<>>

\* lines 232-268: the sections of the notes from the i-th on
RECURSIVE sections(_, _)
sections(i, notes) ==
    IF i > Len(notes) THEN <<>>
    ELSE <<Paragraph(<<ToString(i), ".", " ">> \o notes[i].title, "CustomTitle"), Spacer(12),
           Paragraph(meta_text(notes[i]), "MetaData"), Spacer(8)>>
             \o content_flowables(notes[i].content) \o separator_after(i, notes)
             \o sections(i + 1, notes)

\* lines 198-268: the story of a collection
collection_story(notes, now) == cover(notes, now) \o toc(notes) \o <<PageBreak>> \o sections(1, notes)

\* lines 186-278: generate_all_notes_pdf; only doc.build is inside the try
generate_all_notes_pdf(notes, now, build, err_build) ==
    IF story_raises(notes, collection_story(notes, now)) THEN [t |-> "raised", v |-> "ValueError"]
    ELSE IF build = "ok" THEN PyBytes(collection_story(notes, now))
    ELSE generate_error_pdf(<<"E", "r", "r", "o", "r", " ", "g", "e", "n", "e", "r", "a", "t", "i", "n", "g", " ", "n", "o", "t", "e", "s", " ", "c", "o", "l", "l", "e", "c", "t", "i", "o", "n", " ", "P", "D", "F">>, err_build)

\* ------------------------------------------------ the exports, any notes
Body == <<"B", "o", "d", "y">>
TitleAndBody == <<"#", " ", "T", "i", "t", "l", "e", "\n", "\n", "B", "o", "d", "y", " ", "t", "e", "x", "t">>
UnterminatedBold == <<"*", "*", "u", "n", "t", "e", "r", "m", "i", "n", "a", "t", "e", "d", " ", "b", "o", "l", "d">>
Crossed == <<"*", "*", "a", " ", "*", "b", "*", "*", " ", "c", "*">>
CodeLine == <<"c", "o", "d", "e">>
LongCode == [i \in 1..(CodeLimit + 1) |-> "x"]
fenced(code) == Fence \o <<"\n">> \o code \o <<"\n">> \o Fence
CheckedLine == <<"-", " ", "[", "x", "]", " ", "t">>
UncheckedLine == <<"-", " ", "[", " ", "]", " ", "t">>
BulletLine == <<"-", " ", "t">>

\* the contents of the notes handed to the exports
Markdowns ==
    {Body, TitleAndBody, UnterminatedBold, Crossed, fenced(CodeLine), fenced(LongCode),
     CheckedLine, UncheckedLine, BulletLine}

\* a note as the store writes it, never updated
exported(content) == new_note(UUIDs[1], Hi, content, isoformat(0))
\* a note that was updated, and one whose created_at something else wrote
UpdatedNote == [exported(Body) EXCEPT !.title = HELLO, !.updated_at = isoformat(1)]
UndatedNote == [exported(Body) EXCEPT !.created_at = <<-1>>]

\* the lists of notes handed to the exports
ExportLists ==
    {<<>>} \cup {<<exported(c)>> : c \in Markdowns} \cup {<<UpdatedNote>>, <<UndatedNote>>}
      \cup {<<exported(Body), UpdatedNote>>, <<UpdatedNote, exported(Body)>>,
            <<exported(TitleAndBody), exported(CheckedLine), UpdatedNote>>,
            <<exported(Body), exported(Crossed)>>}

InitExport ==
    /\ file \in {JsonList(l) : l \in ExportLists}
    /\ issued = {UUIDs[1]}
    /\ call = NoCall
    /\ ret = PyNone
    /\ InitSession

\* generate_single_note_pdf(note) for a note of the list
GenerateSingleNotePdf ==
    \E i \in 1..Len(file.notes), build \in BuildOutcomes, err_build \in BuildOutcomes :
        /\ call' = [op |-> "export_single", note |-> file.notes[i], build |-> build, err_build |-> err_build,
                    rd |-> "ok", saved |-> "no"]
        /\ ret' = generate_single_note_pdf(file.notes[i], build, err_build)
        /\ UNCHANGED <<file, issued, ui, sessions>>

\* generate_all_notes_pdf(notes) for the list
GenerateAllNotesPdf ==
    \E now \in datetime_now, build \in BuildOutcomes, err_build \in BuildOutcomes :
        /\ call' = [op |-> "export_all", notes |-> file.notes, build |-> build, err_build |-> err_build,
                    rd |-> "ok", saved |-> "no"]
        /\ ret' = generate_all_notes_pdf(file.notes, now, build, err_build)
        /\ UNCHANGED <<file, issued, ui, sessions>>

NextExport ==
    \/ GenerateSingleNotePdf
    \/ GenerateAllNotesPdf

SpecExport == InitExport /\ [][NextExport]_vars

\* ------------------------------------- two sessions on one backing file
\* the characters json.dump writes for a str: two for a character it escapes
RECURSIVE dumped_len(_)
dumped_len(str) ==
    IF str = <<>> THEN 0
    ELSE (IF Head(str) \in {"\n", "\t", "\"", "\\"} THEN 2 ELSE 1) + dumped_len(Tail(str))

\* the characters json.dump(notes, f, indent=2) writes; isoformat writes 19,
\* and 7 more with microseconds
RECURSIVE dump_len(_)
dump_len(notes) ==
    IF notes = <<>> THEN 2
    ELSE 138 + dumped_len(Head(notes).title) + dumped_len(Head(notes).content)
             + (IF Len(Head(notes).created_at) = 1 THEN 19 ELSE 26)
             + (IF Len(Head(notes).updated_at) = 1 THEN 19 ELSE 26)
             + dump_len(Tail(notes))

\* what the file can hold once a session that opened it earlier writes its
\* collection and closes: the write starts at the file's first byte and cuts
\* nothing off, so behind a text shorter than what another session has
\* written meanwhile the rest of that text stays
write_from_start(f, notes) ==
    IF f.kind = "empty" THEN {JsonList(notes)}
    ELSE IF f.kind = "list"
         THEN IF dump_len(f.notes) > dump_len(notes) THEN {Garbage} ELSE {JsonList(notes)}
    ELSE {JsonList(notes), Garbage}

\* a session calls create_note, update_note or delete_note: it loads and
\* changes the collection in memory; op is what the call does when nothing
\* runs between its load and its save
Enter(s, op) ==
    /\ sessions[s].pc = "idle"
    /\ IF op.saved = "ok"
       THEN sessions' = [t \in Sessions |->
                IF t = s
                THEN [pc |-> "open", loaded |-> load_notes(file, "ok").ret.v, notes |-> op.file.notes,
                      alone |-> \A u \in Sessions : sessions[u].pc = "idle"]
                ELSE [sessions[t] EXCEPT !.alone = sessions[t].pc = "idle"]]
       ELSE sessions' = sessions
    /\ UNCHANGED <<file, call, ret, ui>>

SessionCreate(s) ==
    \E note_id \in uuid4(issued) :
        /\ Enter(s, create_note(file, Hi, Blank, note_id, isoformat(0), "ok", "ok"))
        /\ issued' = issued \cup {note_id}

SessionUpdate(s) ==
    \E note_id \in Ids :
        /\ Enter(s, update_note(file, note_id, Empty, SayHello, isoformat(1), "ok", "ok"))
        /\ UNCHANGED issued

SessionDelete(s) ==
    \E note_id \in Ids :
        /\ Enter(s, delete_note(file, note_id, "ok", "ok"))
        /\ UNCHANGED issued

\* save_notes, its first step: open(self.data_file, 'w') empties the file
SessionOpen(s) ==
    /\ sessions[s].pc = "open"
    /\ file' = Emptied
    /\ sessions' = [sessions EXCEPT ![s].pc = "dump"]
    /\ UNCHANGED <<issued, call, ret, ui>>

\* save_notes, its second step: json.dump and the close write the collection
SessionDump(s) ==
    /\ sessions[s].pc = "dump"
    /\ file' \in write_from_start(file, sessions[s].notes)
    /\ sessions' = [sessions EXCEPT ![s] = Idle]
    /\ UNCHANGED <<issued, call, ret, ui>>

NextSessions ==
    \E s \in Sessions :
        \/ SessionCreate(s)
        \/ SessionUpdate(s)
        \/ SessionDelete(s)
        \/ SessionOpen(s)
        \/ SessionDump(s)

SpecSessions == Init /\ [][NextSessions]_vars

\* ---------------------------------------------------------------- claims
\* the collection a load of the file yields
Collection(f) == load_notes(f, "ok").ret.v

\* the stored note with an id (the first, as get_note finds it)
NoteWithId(f, id) == f.notes[CHOOSE i \in 1..Len(f.notes) : f.notes[i].id = id /\ \A j \in 1..(i - 1) : f.notes[j].id # id]

Count(notes, id) == Cardinality({i \in 1..Len(notes) : notes[i].id = id})

\* C1: right after create(T, C) has returned an id, get(id) returns a note
\* with that id whose title is T, whose content is C and whose created_at
\* equals its updated_at.
C1_CreateGetRoundTrip ==
    (call.op = "create" /\ ret.t = "str") =>
        LET g == get_note(file, ret.v, "ok")
        IN  /\ g.exc = NoExc
            /\ g.ret.t = "dict"
            /\ g.ret.v.id = ret.v
            /\ g.ret.v.title = call.title
            /\ g.ret.v.content = call.content
            /\ g.ret.v.created_at = g.ret.v.updated_at

\* a second note has just been created, behind another one
C1_Witness == call.op = "create" /\ ret.t = "str" /\ Len(file.notes) = 2

\* C2: a successful update(id, T2, C2) leaves the note's id and created_at
\* unchanged, does not move updated_at back and sets title and content to T2
\* and C2.
C2_UpdatePreservesIdentity ==
    [][(call'.op = "update" /\ ret' = PyBool(TRUE)) =>
        LET old == NoteWithId(file, call'.id)
            new == NoteWithId(file', call'.id)
        IN  /\ Count(file'.notes, call'.id) = 1
            /\ new.created_at = old.created_at
            /\ fromisoformat(new.updated_at) >= fromisoformat(old.updated_at)
            /\ new.title = call'.title
            /\ new.content = call'.content]_vars

\* C3: a successful delete(id) of an id stored exactly once leaves one note
\* fewer, and get(id) then returns None.
C3_DeleteRemovesOne ==
    [][(call'.op = "delete" /\ ret' = PyBool(TRUE) /\ Count(file.notes, call'.id) = 1) =>
        /\ file'.kind = "list"
        /\ Len(file'.notes) = Len(file.notes) - 1
        /\ get_note(file', call'.id, "ok").ret = PyNone]_vars

\* a delete has succeeded and left another note behind
C3_Witness == call.op = "delete" /\ ret = PyBool(TRUE) /\ Len(file.notes) = 1

\* C4: when the write of a create, update or delete fails, the call returns
\* its failure value and the collection a load yields is the one it yielded
\* before the call.
C4_FailedWriteKeepsCollection ==
    [][(call'.op \in {"create", "update", "delete"} /\ call'.saved = "failed") =>
        /\ ret' \in {PyNone, PyBool(FALSE)}
        /\ Collection(file') = Collection(file)]_vars

\* C5: no two stored notes have the same id.
C5_IdsUnique ==
    \A i, j \in 1..Len(file.notes) : i # j => file.notes[i].id # file.notes[j].id

\* two notes are stored
C5_Witness == call.op = "create" /\ ret.t = "str" /\ Len(file.notes) = 2 /\ issued = Ids

\* C6: every stored note's updated_at is not before its created_at.
C6_UpdatedNotBeforeCreated ==
    \A i \in 1..Len(file.notes) :
        fromisoformat(file.notes[i].updated_at) >= fromisoformat(file.notes[i].created_at)

\* C8: list() on a readable file returns every stored note exactly once, and
\* of two notes with different created_at the one with the later created_at
\* comes first.
C8_ListNewestFirst ==
    (call.op = "list" /\ call.rd = "ok") =>
        /\ ret.t = "list"
        /\ Len(ret.v) = Len(file.notes)
        /\ \A i \in 1..Len(file.notes) :
               Cardinality({j \in 1..Len(ret.v) : ret.v[j] = file.notes[i]}) = 1
        /\ \A i, j \in 1..Len(ret.v) :
               fromisoformat(ret.v[i].created_at) > fromisoformat(ret.v[j].created_at) => i < j

\* a listing of two notes, the first stored one created before the second, in
\* the same second
C8_Witness ==
    /\ call.op = "list" /\ call.rd = "ok"
    /\ Len(file.notes) = 2
    /\ Len(file.notes[1].created_at) < Len(file.notes[2].created_at)
    /\ ret.v[1] = file.notes[2]

\* two characters that are the same letter, whatever their case
SameLetter(a, b) == a = b \/ <<a, b>> \in CasePairs \/ <<b, a>> \in CasePairs

\* q occurs in s when case is ignored
ContainsIgnoringCase(s, q) ==
    \E k \in 0..(Len(s) - Len(q)) : \A i \in 1..Len(q) : SameLetter(s[k + i], q[i])

\* the notes of a sequence whose title or content contains q, case ignored
Matching(notes, q) ==
    LET Hit(n) == ContainsIgnoringCase(n.title, q) \/ ContainsIgnoringCase(n.content, q)
    IN  SelectSeq(notes, Hit)

\* C9: search(query) on a readable file returns the notes of list() whose
\* title or content contains the query, case ignored, in list()'s order; so
\* search("HELLO") returns every note whose content is "say hello".
C9_SearchIgnoresCase ==
    (call.op = "search" /\ call.rd = "ok") =>
        /\ ret.t = "list"
        /\ ret.v = Matching(get_all_notes(file, "ok").ret.v, call.query)
        /\ call.query = HELLO =>
               \A i \in 1..Len(file.notes) :
                   file.notes[i].content = SayHello => \E j \in 1..Len(ret.v) : ret.v[j] = file.notes[i]

\* search("HELLO") has returned the one note of two whose content is "say hello"
C9_Witness ==
    /\ call.op = "search" /\ call.rd = "ok" /\ call.query = HELLO
    /\ Len(file.notes) = 2
    /\ Len(ret.v) = 1
    /\ ret.v[1].content = SayHello

\* a text that is empty or holds white space only
IsBlank(s) == \A i \in 1..Len(s) : s[i] \in {" ", "\t", "\n"}

\* C7: the Save Note button never leaves a note whose title or content is
\* empty or white space only in the store.
C7_PersistedNotBlank ==
    \A i \in 1..Len(file.notes) :
        ~IsBlank(file.notes[i].title) /\ ~IsBlank(file.notes[i].content)

\* the button has created two notes and updated one of them
C7_Witness == call.op = "update" /\ ret = PyBool(TRUE) /\ Len(file.notes) = 2

\* what a call returns when it fails or finds nothing
FailureValue(op) ==
    IF op \in {"create", "get"} THEN PyNone
    ELSE IF op \in {"list", "search"} THEN PyList(<<>>)
    ELSE PyBool(FALSE)

\* C10: whatever the backing file holds, no call lets an exception out; a
\* failed read or write, an id that is not stored and, for get, list and
\* search, a file that does not parse all give the call's failure value.
C10_NothingEscapes ==
    call.op # "none" =>
        /\ ret.t # "raised"
        /\ (call.rd = "EACCES" \/ call.saved = "failed") => ret = FailureValue(call.op)
        /\ (call.op \in {"get", "list", "search"} /\ file.kind \in {"garbage", "undecodable"}) =>
               ret = FailureValue(call.op)
        /\ (call.op \in {"get", "update"} /\ file.kind = "list" /\ \A i \in 1..Len(file.notes) : ~IsNote(file.notes[i]) \/ file.notes[i].id # call.id) =>
               ret = FailureValue(call.op)
        /\ (call.op = "delete" /\ call.saved = "no") => ret = FailureValue(call.op)

\* get has met an element that is no note before any note
C10_Witness ==
    /\ call.op = "get" /\ call.rd = "ok"
    /\ file.kind = "list" /\ Len(file.notes) = 2
    /\ ~IsNote(file.notes[1])
    /\ ret = PyNone

\* C11: an operation whose reads and writes succeed and that finds the
\* backing file missing leaves a file that exists and holds a collection.
C11_MissingFileCreated ==
    [][(call'.op # "none" /\ call'.rd = "ok" /\ call'.saved # "failed" /\ file.kind = "missing") =>
        file'.kind = "list"]_vars

\* C15: in the presentation layer every failed create, update or delete
\* shows a failure notice and leaves current_note_id and edit_mode as they
\* were.
C15_FailureShowsNotice ==
    [][(call'.op \in {"create", "update", "delete"} /\ ret' \in {PyNone, PyBool(FALSE)}) =>
        /\ notice' = "error"
        /\ current_note_id' = current_note_id
        /\ edit_mode' = edit_mode]_vars

\* C20: get, list and search leave the backing file as it was, and a list()
\* made right after a list() (its read faring the same) returns the very
\* sequence the first returned.
C20_ReadsIdempotent ==
    [][/\ call'.op \in {"get", "list", "search"} => file' = file
       /\ call'.op = "list" => Outcome(get_all_notes(file', call'.rd)) = ret']_vars

\* a listing of two notes that are stored in another order than listed
C20_Witness ==
    /\ call.op = "list" /\ call.rd = "ok"
    /\ ret.t = "list" /\ Len(ret.v) = 2
    /\ ret.v # file.notes

\* the flowables of a single note's story that follow its title, metadata
\* and separator
body(story) == SubSeq(story, 6, Len(story))

\* C12: every call of generate_single_note_pdf and generate_all_notes_pdf
\* returns a document and lets no exception out.
C12_ExportAlwaysYieldsDocument ==
    call.op \in {"export_single", "export_all"} => ret.t = "bytes" /\ ret.v # <<>>

\* C13: when doc.build fails, the document returned holds the fixed error
\* title and, as its body text, the message of the failure.
C13_FallbackCarriesMessage ==
    (call.op \in {"export_single", "export_all"} /\ call.build # "ok" /\ ret.t = "bytes") =>
        /\ Len(ret.v) = 3
        /\ ret.v[1] = Paragraph(ErrorTitle, "CustomTitle")
        /\ ret.v[3].k = "Paragraph"
        /\ str_find(ret.v[3].text, LayoutMessage, 1) # 0

\* C16: the content "**unterminated bold" renders as one Paragraph whose text
\* is the content, nothing added and nothing removed.
C16_UnmatchedSyntaxLiteral ==
    (call.op = "export_single" /\ call.build = "ok" /\ call.note.content = UnterminatedBold) =>
        /\ ret.t = "bytes"
        /\ body(ret.v) = <<Paragraph(UnterminatedBold, "CustomBody"), Spacer(6)>>

\* C17: a fenced code block renders as a code block (Courier, size 9) of its
\* content, cut to its first 100 characters and "..." when it is longer.
C17_FencedCodeBlock ==
    \A code \in {CodeLine, LongCode} :
        (call.op = "export_single" /\ call.build = "ok" /\ call.note.content = fenced(code)) =>
            /\ ret.t = "bytes"
            /\ body(ret.v) =
                 <<Paragraph(CodeBlockOpen
                               \o (IF Len(code) > CodeLimit THEN SubSeq(code, 1, CodeLimit) \o Ellipsis ELSE code)
                               \o FontClose, "CustomBody"),
                   Spacer(6)>>

\* C18: the line "- [x] t" renders as a checked item with text t, the line
\* "- [ ] t" as an unchecked item with text t, and "- t" as a bullet.
C18_ChecklistItems ==
    (call.op = "export_single" /\ call.build = "ok") =>
        /\ call.note.content = CheckedLine =>
               body(ret.v) = <<Paragraph(<<"U+2713", " ", "t">>, "CustomBody"), Spacer(6)>>
        /\ call.note.content = UncheckedLine =>
               body(ret.v) = <<Paragraph(<<"U+2610", " ", "t">>, "CustomBody"), Spacer(6)>>
        /\ call.note.content = BulletLine =>
               body(ret.v) = <<Paragraph(<<"U+2022", " ", "t">>, "CustomBody"), Spacer(6)>>

\* C19: the document generate_all_notes_pdf builds of n notes has the cover
\* with "Total Notes: n", then n entries of the table of contents in the
\* order of the notes, then the one page break, then the n sections in the
\* same order, with max(0, n - 1) separators, each followed by a section; of
\* no notes it has the cover and the page break only.
C19_CollectionLayout ==
    (call.op = "export_all" /\ call.build = "ok" /\ ret.t = "bytes") =>
        LET notes == call.notes
            n == Len(notes)
            story == ret.v
            is_break(f) == f.k = "PageBreak"
            is_title(f) == f.k = "Paragraph" /\ f.style = "CustomTitle"
            is_separator(f) == f.k = "Paragraph" /\ f.style = "Separator"
            at_break(i) == is_break(story[i])
            at_title(i) == is_title(story[i])
            at_separator(i) == is_separator(story[i])
            all == [i \in 1..Len(story) |-> i]
            titles == SelectSeq(all, at_title)
            separators == SelectSeq(all, at_separator)
        IN  /\ story[1] = Paragraph(CoverTitle, "CustomTitle")
            /\ story[5] = Paragraph(<<"T", "o", "t", "a", "l", " ", "N", "o", "t", "e", "s", ":", " ">> \o <<ToString(n)>>, "CustomBody")
            /\ story[7] = Paragraph(TocTitle, "CustomHeading")
            /\ \A i \in 1..n :
                   /\ story[8 + i].k = "Paragraph"
                   /\ occurs_at(story[8 + i].text, 1, <<ToString(i), ".", " ">> \o notes[i].title)
            /\ SelectSeq(all, at_break) = <<9 + n>>
            /\ Len(titles) = n + 1
            /\ \A i \in 1..n :
                   /\ titles[i + 1] > 9 + n
                   /\ story[titles[i + 1]].text = <<ToString(i), ".", " ">> \o notes[i].title
            /\ Len(separators) = IF n = 0 THEN 0 ELSE n - 1
            /\ \A j \in 1..Len(separators) : titles[j + 1] < separators[j] /\ separators[j] < titles[j + 2]
            /\ n = 0 => Len(story) = 9

\* a document of three notes has been built
C19_Witness == call.op = "export_all" /\ call.build = "ok" /\ ret.t = "bytes" /\ Len(call.notes) = 3

\* C14: when a session's save completes, the file holds exactly the
\* collection that session wrote, whatever the other session did since its
\* load; and a session whose call no step of the other session overlaps
\* overwrites nothing but what it loaded.
C14_LastWriterWins ==
    [][\A s \in Sessions :
          /\ (sessions[s].pc = "dump" /\ sessions'[s].pc = "idle") => file' = JsonList(sessions[s].notes)
          /\ (sessions[s].pc = "open" /\ sessions'[s].pc = "dump" /\ sessions[s].alone) =>
                 load_notes(file, "ok").ret.v = sessions[s].loaded]_vars

\* C21: a create, update or delete made on a readable file touches only its
\* target: create leaves the stored notes and their order as they were and,
\* when it returns an id, has appended one note with that id; update(id) and
\* delete(id) leave the notes with another id as they were, in the same
\* order; update or delete of an id that is not stored returns False and
\* writes nothing, the file staying as it was.
C21_MutationTouchesOnlyTarget ==
    [][(call'.op \in {"create", "update", "delete"} /\ file.kind = "list" /\ call'.rd = "ok") =>
        LET before == file.notes
            after == Collection(file')
        IN  /\ call'.op = "create" =>
                /\ Len(after) >= Len(before)
                /\ SubSeq(after, 1, Len(before)) = before
                /\ ret'.t = "str" => (Len(after) = Len(before) + 1 /\ after[Len(after)].id = ret'.v)
            /\ call'.op \in {"update", "delete"} =>
                /\ without_id(after, call'.id) = without_id(before, call'.id)
                /\ Count(before, call'.id) = 0 =>
                       (ret' = PyBool(FALSE) /\ call'.saved = "no" /\ file' = file)]_vars

\* C22: a load that a session makes while another session is inside its save
\* (the file opened for writing, the collection not yet written) yields the
\* whole collection from before that save or the whole collection after it,
\* never an empty or partial one; so the collection a create of the loading
\* session goes on to save (its load and one note more) holds every note that
\* is stored both before and after the other session's save.
C22_SaveAtomicToOthers ==
    [][\A s, t \in Sessions :
          (/\ sessions[s].pc = "idle" /\ sessions'[s].pc = "open"
           /\ sessions[t].pc = "dump" /\ sessions[t].alone) =>
              /\ sessions'[s].loaded \in {sessions[t].loaded, sessions[t].notes}
              /\ Len(sessions'[s].notes) = Len(sessions'[s].loaded) + 1 =>
                     \A i \in 1..Len(sessions[t].loaded) :
                         (\E j \in 1..Len(sessions[t].notes) : sessions[t].notes[j] = sessions[t].loaded[i])
                             => \E k \in 1..Len(sessions'[s].notes) : sessions'[s].notes[k] = sessions[t].loaded[i]]_vars

====
